---- MODULE Spec2Model ----
\* A model of the command-line address book of main.py: the Field/Name/Phone
\* value types, Record, AddressBook, the command handlers behind
\* error_handler, command_parser and the loop of main().
\*
\* A Python str is a sequence of one-character strings, so that strip,
\* replace, split, startswith, isnumeric, lower and the substring test are
\* computed character by character.
EXTENDS Integers, Sequences, FiniteSets, TLC

VARIABLES
    book,        \* ADDRESSBOOK.data: the records in dict (insertion) order
    mode,        \* "running" | "terminated" | "crashed" (an exception left main)
    user_input,  \* the line main() read last
    answer,      \* the answer add's prompt consumed last ("" when it did not ask)
    command,     \* the handler command_parser resolved last ("none" when None)
    data,        \* the argument list command_parser produced last
    out,         \* the text printed last
    prev,        \* the value of book when the last line was read
    number,      \* Phone.sanitize_number exercised alone: its input,
    clean,       \*   its result,
    again,       \*   the result of sanitizing that result,
    pc           \*   and how many of the two calls have been made

vars == <<book, mode, user_input, answer, command, data, out, prev,
          number, clean, again, pc>>

\* ------------------------------------------------------------------ bounds

\* the most Phone objects the address book holds in all (add stops there)
MaxPhones == 3
\* the longest string given to Phone.sanitize_number on its own
MaxLen == 3
\* the most space-separated tokens of a line given to command_parser on its own
MaxTokens == 4

\* ------------------------------------------------------- str, as Python has it

WHITESPACE == {" ", "\t", "\n"}
DIGITS == {"0", "1", "2", "3", "4", "5", "6", "7", "8", "9"}
UPPER == <<"A","B","C","D","E","F","G","H","I","J","K","L","M","N","O","P",
           "Q","R","S","T","U","V","W","X","Y","Z">>
LOWER == <<"a","b","c","d","e","f","g","h","i","j","k","l","m","n","o","p",
           "q","r","s","t","u","v","w","x","y","z">>

\* s[i:] with i counted from 1
From(s, i) == SubSeq(s, i, Len(s))

\* s.startswith(w, i-1)
StartsWithAt(s, i, w) ==
    /\ i + Len(w) - 1 <= Len(s)
    /\ SubSeq(s, i, i + Len(w) - 1) = w

\* s.startswith(w)
startswith(s, w) == StartsWithAt(s, 1, w)

\* w in s
Contains(s, w) == \E i \in 1..(Len(s) + 1) : StartsWithAt(s, i, w)

\* s.replace(w, ""): every non-overlapping occurrence goes, left to right
RECURSIVE replace(_, _)
replace(s, w) ==
    IF s = << >> \/ w = << >> THEN s
    ELSE IF StartsWithAt(s, 1, w) THEN replace(From(s, Len(w) + 1), w)
    ELSE <<Head(s)>> \o replace(Tail(s), w)

RECURSIVE lstrip(_)
lstrip(s) == IF s # << >> /\ Head(s) \in WHITESPACE THEN lstrip(Tail(s)) ELSE s

RECURSIVE rstrip(_)
rstrip(s) ==
    IF s # << >> /\ s[Len(s)] \in WHITESPACE
    THEN rstrip(SubSeq(s, 1, Len(s) - 1)) ELSE s

\* s.strip()
strip(s) == rstrip(lstrip(s))

\* s.split(" "): cut at every single space, empty pieces kept
RECURSIVE split(_)
split(s) ==
    IF \A i \in 1..Len(s) : s[i] # " " THEN <<s>>
    ELSE LET i == CHOOSE k \in 1..Len(s) :
                      s[k] = " " /\ \A j \in 1..(k - 1) : s[j] # " "
         IN  <<SubSeq(s, 1, i - 1)>> \o split(From(s, i + 1))

\* sep.join(parts)
RECURSIVE join(_, _)
join(parts, sep) ==
    IF parts = << >> THEN << >>
    ELSE IF Len(parts) = 1 THEN parts[1]
    ELSE parts[1] \o sep \o join(Tail(parts), sep)

\* s.isnumeric(), for the ASCII characters the model uses
isnumeric(s) == s # << >> /\ \A i \in 1..Len(s) : s[i] \in DIGITS

lower_char(c) ==
    IF \E i \in 1..Len(UPPER) : UPPER[i] = c
    THEN LOWER[CHOOSE i \in 1..Len(UPPER) : UPPER[i] = c]
    ELSE c

\* s.lower()
lower(s) == [i \in 1..Len(s) |-> lower_char(s[i])]

\* ------------------------------------------------------------------ Phone

\* strip() runs first and only once, then the four characters go
sanitize_number(n) ==
    replace(replace(replace(replace(strip(n), <<"-">>), <<"(">>), <<")">>), <<"+">>)

\* Phone(phone).value
Phone(p) == sanitize_number(p)

\* ----------------------------------------------------------------- Record

\* Record(name, phone); a Phone object is always truthy, so it is appended.
\* Record(name) alone (delete_contact) has no phones.
Record(name, phones) == [name |-> name, phones |-> phones]

add_phone(rec, p) == [rec EXCEPT !.phones = Append(@, p)]

\* Record.change gone wrong: every phone equal to old_p is removed
Record_change_all(rec, old_p, new_p) ==
    IF \E i \in 1..Len(rec.phones) : rec.phones[i] = old_p
    THEN [rec EXCEPT !.phones =
             Append(SelectSeq(@, LAMBDA p : p # old_p), Phone(new_p))]
    ELSE rec

\* the first phone whose value equals old_p is removed and Phone(new_p) is
\* appended; a record without old_p is left as it is
Record_change(rec, old_p, new_p) ==
    IF \E i \in 1..Len(rec.phones) : rec.phones[i] = old_p
    THEN LET i == CHOOSE k \in 1..Len(rec.phones) :
                      /\ rec.phones[k] = old_p
                      /\ \A j \in 1..(k - 1) : rec.phones[j] # old_p
         IN  [rec EXCEPT !.phones =
                 Append(SubSeq(@, 1, i - 1) \o From(@, i + 1), Phone(new_p))]
    ELSE rec

\* ------------------------------------------------------------ AddressBook
\* book is a sequence of [key, rec]: a dict in its iteration order.

\* None, where a Record is expected
NoRecord == [name |-> <<"None">>, phones |-> << >>]

HasKey(b, k) == \E i \in 1..Len(b) : b[i].key = k

KeyIndex(b, k) == CHOOSE i \in 1..Len(b) : b[i].key = k

\* self.get(name) / self.data.get(name): NoRecord stands for None
get(b, k) == IF HasKey(b, k) THEN b[KeyIndex(b, k)].rec ELSE NoRecord

\* add_record gone wrong: self.data[record.phone.value] = record
add_record_by_phone(b, rec) ==
    Append(SelectSeq(b, LAMBDA e : e.key # rec.phones[1]),
           [key |-> rec.phones[1], rec |-> rec])

\* self.data[record.name.value] = record: a key already there keeps its place
add_record(b, rec) ==
    IF HasKey(b, rec.name)
    THEN [b EXCEPT ![KeyIndex(b, rec.name)] = [key |-> rec.name, rec |-> rec]]
    ELSE Append(b, [key |-> rec.name, rec |-> rec])

\* remove_record gone wrong: nothing is popped
remove_record_noop(b, rec) == b

\* self.data.pop(record.name.value, None)
remove_record(b, rec) ==
    IF HasKey(b, rec.name)
    THEN LET i == KeyIndex(b, rec.name)
         IN  SubSeq(b, 1, i - 1) \o From(b, i + 1)
    ELSE b

\* f"{rec.name} : {','.join(...)}"
Line(rec) == rec.name \o <<" ",":"," ">> \o join(rec.phones, <<",">>)

show_one_record(b, name) ==
    IF HasKey(b, name) THEN Line(get(b, name))
    ELSE <<"T","h","e","r","e"," ","i","s"," ","n","o"," ","c","o","n","t",
           "a","c","t"," ","w","i","t","h"," ","t","h","e"," ","n","a","m",
           "e"," ">> \o name

show_all_records(b) ==
    IF b # << >>
    THEN join([i \in 1..Len(b) |-> Line(b[i].rec)], <<"\n">>)
    ELSE <<"Y","o","u","r"," ","a","d","d","r","e","s","s"," ","b","o","o",
           "k"," ","i","s"," ","e","m","p","t","y">>

\* the record under username, if any, is changed; Record.change's result is dropped
change_record(b, username, old_n, new_n) ==
    IF HasKey(b, username)
    THEN [b EXCEPT ![KeyIndex(b, username)].rec = Record_change(@, old_n, new_n)]
    ELSE b

\* the number of Phone objects the book holds
RECURSIVE TotalPhones(_)
TotalPhones(b) ==
    IF b = << >> THEN 0 ELSE Len(Head(b).rec.phones) + TotalPhones(Tail(b))

\* ---------------------------------------------------------------- handlers
\* A handler's outcome: the exception it raised ("none" when it returned),
\* the string it returned and the address book it leaves.

Returns(text, b) == [exc |-> "none", ret |-> text, book |-> b]
Raises(e, b) == [exc |-> e, ret |-> << >>, book |-> b]

\* wrapper(*args): IndexError, ValueError and KeyError become messages;
\* any other exception passes through
error_handler(r) ==
    IF r.exc = "IndexError"
    THEN Returns(<<"Y","o","u"," ","d","i","d","n","'","t"," ","p","r","o","v","i",
                   "d","e"," ","c","o","n","t","a","c","t"," ","n","a","m","e"," ",
                   "o","r"," ","p","h","o","n","e"," ","n","u","m","b","e","r">>, r.book)
    ELSE IF r.exc = "ValueError"
    THEN Returns(<<"P","h","o","n","e"," ","n","u","m","b","e","r"," ","m","u","s",
                   "t"," ","i","n","c","l","u","d","e"," ","d","i","g","i","t","s",
                   " ","o","n","l","y">>, r.book)
    ELSE IF r.exc = "KeyError"
    THEN Returns(<<"U","s","e","r","n","a","m","e"," ","i","s"," ","n","o","t"," ",
                   "i","n"," ","c","o","n","t","a","c","t"," ","l","i","s","t">>, r.book)
    ELSE r

HELP_INSTRUCTIONS ==
    <<"T","h","i","s"," ","c","o","n","t","a","c","t"," ","b","o","t",
    " ","s","a","v","e"," ","y","o","u","r"," ","c","o","n","t","a",
    "c","t","s","\n"," "," "," "," ","G","l","o","b","a","l"," ","c",
    "o","m","m","a","n","d","s",":","\n"," "," "," "," "," "," ","'",
    "a","d","d","'"," ","-"," ","a","d","d"," ","n","e","w"," ","c",
    "o","n","t","a","c","t","."," ","I","n","p","u","t"," ","u","s",
    "e","r","n","a","m","e"," ","a","n","d"," ","p","h","o","n","e",
    "\n"," "," "," "," ","E","x","a","m","p","l","e",":"," ","a","d",
    "d"," ","U","s","e","r","_","n","a","m","e"," ","0","9","5","-",
    "x","x","x","-","x","x","-","x","x","\n"," "," "," "," "," "," ",
    "'","c","h","a","n","g","e","'"," ","-"," ","c","h","a","n","g",
    "e"," ","u","s","e","r","s"," ","o","l","d"," ","p","h","o","n",
    "e"," ","t","o"," ","n","e","w"," ","p","h","o","n","e","."," ",
    "I","n","p","u","t"," ","u","s","e","r","n","a","m","e",","," ",
    "o","l","d"," ","p","h","o","n","e"," ","a","n","d"," ","n","e",
    "w"," ","p","h","o","n","e","\n"," "," "," "," ","E","x","a","m",
    "p","l","e",":"," ","c","h","a","n","g","e"," ","U","s","e","r",
    "_","n","a","m","e"," ","0","9","5","-","x","x","x","-","x","x",
    "-","x","x"," ","0","5","0","-","x","x","x","-","x","x","-","x",
    "x","\n"," "," "," "," "," "," ","'","p","h","o","n","e","'"," ",
    "-"," ","s","h","o","w"," ","c","o","n","t","a","c","t","s"," ",
    "o","f"," ","i","n","p","u","t"," ","u","s","e","r","."," ","I",
    "n","p","u","t"," ","u","s","e","r","n","a","m","e","\n"," "," ",
    " "," ","E","x","a","m","p","l","e",":"," ","p","h","o","n","e",
    " ","U","s","e","r","_","n","a","m","e","\n"," "," "," "," "," ",
    " ","'","d","e","l","e","t","e","'"," ","-"," ","r","e","m","o",
    "v","e","s"," ","c","o","n","t","a","c","t"," ","f","r","o","m",
    " ","y","o","u","r"," ","a","d","d","r","e","s","s"," ","b","o",
    "o","k","\n"," "," "," "," ","E","x","a","m","p","l","e",":"," ",
    "d","e","l","e","t","e"," ","U","s","e","r","_","n","a","m","e",
    "\n"," "," "," "," "," "," ","'","s","h","o","w"," ","a","l","l",
    "'"," ","-"," ","s","h","o","w"," ","a","l","l"," ","c","o","n",
    "t","a","c","t","s","\n"," "," "," "," ","E","x","a","m","p","l",
    "e",":"," ","s","h","o","w"," ","a","l","l","\n"," "," "," "," ",
    " "," ","'","e","x","i","t","/","'",".","'","/","'","b","y","e",
    "'","/","'","c","l","o","s","e","'"," ","-"," ","e","x","i","t",
    " ","b","o","t","\n"," "," "," "," ","E","x","a","m","p","l","e",
    ":"," ","e","x","i","t">>

\* whether add asks "rewrite it or create new record?": the name is looked
\* for in the text of the whole book
Asks(b, args) == Len(args) >= 2 /\ Contains(show_all_records(b), args[1])

\* add(*args); ans is the answer ("1" or "2") that ends the prompt's loop,
\* read only if add asks
add_body(b, args, ans) ==
    IF Len(args) < 2 THEN Raises("IndexError", b)
    ELSE
    LET name0 == args[1]
        phone == Phone(args[2])
        rec0  == get(b, name0)
        asks  == Contains(show_all_records(b), name0)
        name  == IF asks /\ ans = "2" THEN name0 \o <<"(","1",")">> ELSE name0
    IN  IF asks /\ ans = "1" /\ rec0 = NoRecord
        THEN Raises("AttributeError", b)    \* remove_record(None): None.name
        ELSE
        LET b1  == IF asks /\ ans = "1" THEN remove_record(b, rec0) ELSE b
            rec == get(b1, name)
        IN  IF ~isnumeric(phone) THEN Raises("ValueError", b1)
            ELSE Returns(
                <<"Y","o","u"," ","j","u","s","t"," ","a","d","d","e","d"," ","c",
                  "o","n","t","a","c","t"," ","\"">> \o name \o <<"\""," ","w","i","t","h"," ","p","h","o","n","e"," ","\"">>
                    \o phone \o <<"\""," ","t","o"," ","y","o","u","r"," ","l","i","s","t"," ","o",
                                  "f"," ","c","o","n","t","a","c","t","s">>,
                IF rec # NoRecord
                THEN [b1 EXCEPT ![KeyIndex(b1, name)].rec = add_phone(@, phone)]
                ELSE add_record(b1, Record(name, <<phone>>)))

add(b, args, ans) == error_handler(add_body(b, args, ans))

hello(b, args) == error_handler(Returns(<<"H","o","w"," ","c","a","n"," ","I"," ","h","e","l","p"," ","y",
                                          "o","u","?">>, b))

show_all(b, args) == error_handler(Returns(show_all_records(b), b))

change_body(b, args) ==
    IF Len(args) < 3 THEN Raises("IndexError", b)
    ELSE IF ~isnumeric(args[3]) THEN Raises("ValueError", b)
    ELSE Returns(
        <<"Y","o","u"," ","j","u","s","t"," ","c","h","a","n","g","e","d",
          " ","n","u","m","b","e","r"," ","f","o","r"," ","c","o","n","t",
          "a","c","t"," ","'">> \o args[1]
            \o <<"'","."," ","N","e","w"," ","n","u","m","b","e","r"," ","i","s",
                 " ","'">> \o args[3] \o <<"'">>,
        change_record(b, args[1], args[2], args[3]))

change(b, args) == error_handler(change_body(b, args))

phone_body(b, args) ==
    IF Len(args) < 1 THEN Raises("IndexError", b)
    ELSE Returns(show_one_record(b, args[1]), b)

phone(b, args) == error_handler(phone_body(b, args))

helper(b, args) == error_handler(Returns(HELP_INSTRUCTIONS, b))

\* delete_contact gone wrong: the empty name is not refused
delete_contact_unchecked(b, args) ==
    IF Len(args) < 1 THEN Raises("IndexError", b)
    ELSE Returns(args[1] \o <<" ","w","a","s"," ","d","e","l","e","t","e","d"," ","f","r","o",
                              "m"," ","y","o","u","r"," ","c","o","n","t","a","c","t"," ","l",
                              "i","s","t">>,
                 remove_record(b, Record(args[1], << >>)))

delete_contact_body(b, args) ==
    IF Len(args) < 1 THEN Raises("IndexError", b)
    ELSE IF args[1] # << >>
    THEN Returns(args[1] \o <<" ","w","a","s"," ","d","e","l","e","t","e","d"," ","f","r","o",
                              "m"," ","y","o","u","r"," ","c","o","n","t","a","c","t"," ","l",
                              "i","s","t">>,
                 remove_record(b, Record(args[1], << >>)))
    ELSE Raises("IndexError", b)

delete_contact(b, args) == error_handler(delete_contact_body(b, args))

\* ------------------------------------------------------- command_parser, main

\* the dict COMMANDS in its order: handler, key word
COMMANDS == <<
    [command |-> "add",            key_word |-> <<"a","d","d">>],
    [command |-> "hello",          key_word |-> <<"h","e","l","l","o">>],
    [command |-> "show_all",       key_word |-> <<"s","h","o","w"," ","a","l","l">>],
    [command |-> "change",         key_word |-> <<"c","h","a","n","g","e">>],
    [command |-> "phone",          key_word |-> <<"p","h","o","n","e">>],
    [command |-> "helper",         key_word |-> <<"h","e","l","p">>],
    [command |-> "delete_contact", key_word |-> <<"d","e","l","e","t","e">>] >>

\* the first key word the input starts with decides; every occurrence of it
\* is taken out of the input, and what is left is stripped and cut at spaces
command_parser(input) ==
    IF \E i \in 1..Len(COMMANDS) : startswith(input, COMMANDS[i].key_word)
    THEN LET i == CHOOSE k \in 1..Len(COMMANDS) :
                      /\ startswith(input, COMMANDS[k].key_word)
                      /\ \A j \in 1..(k - 1) :
                            ~startswith(input, COMMANDS[j].key_word)
         IN  [command |-> COMMANDS[i].command,
              data    |-> split(strip(replace(input, COMMANDS[i].key_word)))]
    ELSE [command |-> "none", data |-> << >>]

end_words == {<<".">>, <<"c","l","o","s","e">>, <<"b","y","e">>, <<"e","x","i","t">>}

\* the end-word test gone wrong: lower() is left out
IsEndWord_cased(line) == line \in end_words

\* user_input.lower() in end_words
IsEndWord(line) == lower(line) \in end_words

\* the handler's outcome for a resolved command
Call(cmd, b, args, ans) ==
    CASE cmd = "add"            -> add(b, args, ans)
      [] cmd = "hello"          -> hello(b, args)
      [] cmd = "show_all"       -> show_all(b, args)
      [] cmd = "change"         -> change(b, args)
      [] cmd = "phone"          -> phone(b, args)
      [] cmd = "helper"         -> helper(b, args)
      [] cmd = "delete_contact" -> delete_contact(b, args)

\* ----------------------------------------------------------- the input lines

AddNames == {<<"b","o","b">>, <<"b","o">>}
AddPhones == {<<"1">>, <<"-","2">>, <<"x">>}
Names == {<<"b","o","b">>, <<"b","o","(","1",")">>}
OldPhones == {<<"1">>, <<"2">>}
NewPhones == {<<"2">>, <<"x">>}
Answers == {"1", "2"}

Words(ws) == join(ws, <<" ">>)

Lines ==
    {Words(<<<<"a","d","d">>, n, p>>) : n \in AddNames, p \in AddPhones}
    \cup {<<"a","d","d">>, <<"a","d","d"," ","b","o","b">>}
    \cup {Words(<<<<"c","h","a","n","g","e">>, n, o, p>>) : n \in Names, o \in OldPhones, p \in NewPhones}
    \cup {<<"c","h","a","n","g","e"," ","b","o","b"," ","1">>}
    \cup {Words(<<<<"p","h","o","n","e">>, n>>) : n \in Names \cup {<<"b","o">>}}
    \cup {Words(<<<<"d","e","l","e","t","e">>, n>>) : n \in Names}
    \cup {<<"d","e","l","e","t","e">>, <<"s","h","o","w"," ","a","l","l">>, <<"h","e","l","l","o">>, <<"H","e","l","p">>}
    \cup {<<".">>, <<"c","l","o","s","e">>, <<"e","x","i","t">>, <<"B","y","e">>, <<"b","y","e"," ">>, <<"b","y","e"," ","n","o","w">>}

\* command_parser(user_input.lower()) of every line
Parsed == [l \in Lines |-> command_parser(lower(l))]

\* ------------------------------------------------------------------- main()

\* nothing read yet, the address book empty
Idle ==
    /\ book = << >> /\ mode = "running" /\ user_input = << >> /\ answer = ""
    /\ command = "none" /\ data = << >> /\ out = << >> /\ prev = << >>

Init ==
    /\ Idle
    /\ number = << >> /\ clean = << >> /\ again = << >> /\ pc = 0

\* input(">>>") returns line while the loop runs
Read(line) ==
    /\ mode = "running"
    /\ user_input' = line
    /\ prev' = book
    /\ UNCHANGED <<number, clean, again, pc>>

\* print(command(*data)); an exception that leaves the handler ends main()
Dispatch(line, cmd, ans) ==
    LET args == Parsed[line].data
        r    == Call(cmd, book, args, ans)
    IN  /\ TotalPhones(r.book) <= MaxPhones
        /\ command' = cmd /\ data' = args
        /\ answer' = IF cmd = "add" /\ Asks(book, args) THEN ans ELSE ""
        /\ book' = r.book
        /\ IF r.exc = "none"
           THEN mode' = mode /\ out' = r.ret
           ELSE mode' = "crashed" /\ out' = << >>

\* the line is no end word and command_parser resolves it to cmd
Resolves(line, cmd) == ~IsEndWord(line) /\ Parsed[line].command = cmd

\* an end word: "Goodbye and good luck", break
Bye ==
    \E line \in Lines :
        /\ Read(line)
        /\ IsEndWord(line)
        /\ mode' = "terminated"
        /\ out' = <<"G","o","o","d","b","y","e"," ","a","n","d"," ","g","o","o","d",
                    " ","l","u","c","k">>
        /\ command' = "none" /\ data' = << >> /\ answer' = ""
        /\ UNCHANGED book

\* command is None: "Sorry, unknown command"
NoCommand ==
    \E line \in Lines :
        /\ Read(line)
        /\ Resolves(line, "none")
        /\ out' = <<"S","o","r","r","y",","," ","u","n","k","n","o","w","n"," ","c",
                    "o","m","m","a","n","d">>
        /\ command' = "none" /\ data' = << >> /\ answer' = ""
        /\ UNCHANGED <<book, mode>>

Add ==
    \E line \in Lines, ans \in Answers :
        /\ Read(line)
        /\ Resolves(line, "add")
        /\ Dispatch(line, "add", ans)

Hello ==
    \E line \in Lines :
        /\ Read(line)
        /\ Resolves(line, "hello")
        /\ Dispatch(line, "hello", "")

ShowAll ==
    \E line \in Lines :
        /\ Read(line)
        /\ Resolves(line, "show_all")
        /\ Dispatch(line, "show_all", "")

Change ==
    \E line \in Lines :
        /\ Read(line)
        /\ Resolves(line, "change")
        /\ Dispatch(line, "change", "")

PhoneOf ==
    \E line \in Lines :
        /\ Read(line)
        /\ Resolves(line, "phone")
        /\ Dispatch(line, "phone", "")

Help ==
    \E line \in Lines :
        /\ Read(line)
        /\ Resolves(line, "helper")
        /\ Dispatch(line, "helper", "")

Delete ==
    \E line \in Lines :
        /\ Read(line)
        /\ Resolves(line, "delete_contact")
        /\ Dispatch(line, "delete_contact", "")

Next ==
    \/ Add \/ Hello \/ ShowAll \/ Change \/ PhoneOf \/ Help \/ Delete
    \/ Bye \/ NoCommand

Spec == Init /\ [][Next]_vars

\* ------------------------------------------- Phone.sanitize_number on its own

SanitizeChars == {" ", "-", "(", "+", "5"}

RECURSIVE StringsUpTo(_, _)
StringsUpTo(chars, n) ==
    IF n = 0 THEN {<< >>}
    ELSE LET shorter == StringsUpTo(chars, n - 1)
         IN  shorter \cup {Append(s, c) : s \in shorter, c \in chars}

InitSanitize ==
    /\ Idle
    /\ number \in StringsUpTo(SanitizeChars, MaxLen)
    /\ clean = << >> /\ again = << >> /\ pc = 0

Sanitize ==
    /\ pc = 0
    /\ clean' = sanitize_number(number)
    /\ pc' = 1
    /\ UNCHANGED <<book, mode, user_input, answer, command, data, out, prev,
                   number, again>>

SanitizeAgain ==
    /\ pc = 1
    /\ again' = sanitize_number(clean)
    /\ pc' = 2
    /\ UNCHANGED <<book, mode, user_input, answer, command, data, out, prev,
                   number, clean>>

NextSanitize == Sanitize \/ SanitizeAgain

SpecSanitize == InitSanitize /\ [][NextSanitize]_vars

\* C3: the result of Phone.sanitize_number holds none of - ( ) +, has no
\* whitespace at either end, and sanitizing it again changes nothing.
C3_SanitizeCleanAndIdempotent ==
    /\ pc >= 1 =>
          /\ \A i \in 1..Len(clean) : clean[i] \notin {"-", "(", ")", "+"}
          /\ clean # << >> =>
                clean[1] \notin WHITESPACE /\ clean[Len(clean)] \notin WHITESPACE
    /\ pc = 2 => again = clean

\* ------------------------------------------------ command_parser on its own

ParseTokens == {<<"a","d","d">>, <<"s","h","o","w">>, <<"a","l","l">>, <<"c","o","n","t","a","c","t","s">>, <<"p","l","e","a","s","e">>, << >>}

RECURSIVE TokenLists(_)
TokenLists(n) ==
    IF n = 1 THEN {<<t>> : t \in ParseTokens}
    ELSE LET shorter == TokenLists(n - 1)
         IN  shorter \cup {Append(ts, t) : ts \in shorter, t \in ParseTokens}

ParseLines == {Words(ts) : ts \in TokenLists(MaxTokens)}

InitParse ==
    /\ user_input \in ParseLines
    /\ book = << >> /\ mode = "running" /\ answer = ""
    /\ command = "none" /\ data = << >> /\ out = << >> /\ prev = << >>
    /\ number = << >> /\ clean = << >> /\ again = << >> /\ pc = 0

Parse ==
    /\ pc = 0
    /\ command' = command_parser(user_input).command
    /\ data' = command_parser(user_input).data
    /\ pc' = 1
    /\ UNCHANGED <<book, mode, user_input, answer, out, prev, number, clean, again>>

NextParse == Parse

SpecParse == InitParse /\ [][NextParse]_vars

\* C6: for a line that starts with a registered key word, command_parser
\* returns that key word's handler and exactly the tokens of the text after
\* the key word prefix, in order: only the leading occurrence of the key word
\* is removed and no token of the rest is altered or dropped. (The rest is cut
\* into tokens the way the code cuts: stripped, then split at spaces.)
C6_OnlyLeadingKeywordRemoved ==
    pc = 1 =>
        \A i \in 1..Len(COMMANDS) :
            startswith(user_input, COMMANDS[i].key_word) =>
                /\ command = COMMANDS[i].command
                /\ data = split(strip(From(user_input, Len(COMMANDS[i].key_word) + 1)))

\* ------------------------------------------------------ claims about main()

\* the last line was dispatched to handler cmd and the handler returned
Returned(cmd) == command = cmd /\ mode = "running"

MissingArgument == <<"Y","o","u"," ","d","i","d","n","'","t"," ","p","r","o","v","i",
                     "d","e"," ","c","o","n","t","a","c","t"," ","n","a","m","e"," ",
                     "o","r"," ","p","h","o","n","e"," ","n","u","m","b","e","r">>
InvalidPhone == <<"P","h","o","n","e"," ","n","u","m","b","e","r"," ","m","u","s",
                  "t"," ","i","n","c","l","u","d","e"," ","d","i","g","i","t","s",
                  " ","o","n","l","y">>
UnknownCommand == <<"S","o","r","r","y",","," ","u","n","k","n","o","w","n"," ","c",
                    "o","m","m","a","n","d">>
NotFound(name) == <<"T","h","e","r","e"," ","i","s"," ","n","o"," ","c","o","n","t",
                    "a","c","t"," ","w","i","t","h"," ","t","h","e"," ","n","a","m",
                    "e"," ">> \o name

\* what phone(name) returns in the current state
PhoneShows(name) == phone(book, <<name>>).ret

\* the numbers a display line "name : p,p,..." lists, in order
RECURSIVE SplitAt(_, _)
SplitAt(s, c) ==
    IF \A i \in 1..Len(s) : s[i] # c THEN <<s>>
    ELSE LET i == CHOOSE k \in 1..Len(s) :
                      s[k] = c /\ \A j \in 1..(k - 1) : s[j] # c
         IN  <<SubSeq(s, 1, i - 1)>> \o SplitAt(From(s, i + 1), c)

Listed(name) ==
    LET text == PhoneShows(name)
        head == name \o <<" ",":"," ">>
    IN  IF startswith(text, head) /\ Len(text) > Len(head)
        THEN SplitAt(From(text, Len(head) + 1), ",")
        ELSE << >>

Count(seq, x) == Cardinality({i \in 1..Len(seq) : seq[i] = x})

\* C1: every handler invocation returns a display string: no error leaves
\* error_handler's wrapper and the loop keeps running.
C1_NoErrorEscapes == command # "none" => mode = "running" /\ out # << >>

\* add(N, P2) completed on a book that held N with exactly one phone
AddToSinglePhoneRecord ==
    /\ Returned("add")
    /\ startswith(out, <<"Y","o","u"," ","j","u","s","t"," ","a","d","d","e","d"," ","c",
                         "o","n","t","a","c","t">>)
    /\ HasKey(prev, data[1])
    /\ Len(get(prev, data[1]).phones) = 1

\* C2 (as claimed): if the book holds N with phones [P1], a completed
\* add(N, P2) leaves the record keyed N with [P1, P2], and phone(N) lists
\* both, comma-joined, in insertion order.
C2_AddAppendsToExisting ==
    AddToSinglePhoneRecord =>
        LET N  == data[1]
            P1 == get(prev, N).phones[1]
            P2 == Phone(data[2])
        IN  /\ get(book, N).phones = <<P1, P2>>
            /\ PhoneShows(N) = N \o <<" ",":"," ">> \o P1 \o <<",">> \o P2

\* C2 (amended): add always asks; on answer "1" the record keyed N is
\* replaced by one holding [P2] alone; on answer "2" the record N keeps [P1]
\* and P2 goes last into the record keyed N(1) (created if absent), whose
\* numbers phone(N(1)) lists comma-joined in insertion order.
C2_AddRewritesOrRenames ==
    AddToSinglePhoneRecord =>
        LET N   == data[1]
            N1  == N \o <<"(","1",")">>
            P1  == get(prev, N).phones[1]
            P2  == Phone(data[2])
            old == IF HasKey(prev, N1) THEN get(prev, N1).phones ELSE << >>
        IN  /\ answer \in {"1", "2"}
            /\ answer = "1" =>
                  /\ get(book, N).phones = <<P2>>
                  /\ PhoneShows(N) = N \o <<" ",":"," ">> \o P2
            /\ answer = "2" =>
                  /\ get(book, N).phones = <<P1>>
                  /\ get(book, N1).phones = Append(old, P2)
                  /\ PhoneShows(N1) = N1 \o <<" ",":"," ">> \o join(Append(old, P2), <<",">>)

\* add(N, P2) with answer "2" where both N and N(1) were there: P2 is appended
C2_Witness ==
    /\ AddToSinglePhoneRecord
    /\ answer = "2"
    /\ HasKey(prev, data[1] \o <<"(","1",")">>)

\* C4: add(N, phone) for a name N no record has and a phone whose sanitized
\* form is all digits, followed by phone(N), shows N and the sanitized phone.
C4_AddThenPhoneShows ==
    (/\ Returned("add")
     /\ Len(data) >= 2
     /\ ~HasKey(prev, data[1])
     /\ isnumeric(Phone(data[2])))
    => /\ Contains(PhoneShows(data[1]), data[1])
       /\ Contains(PhoneShows(data[1]), Phone(data[2]))

\* change(N, old, new) returned, new all digits and other than old, on a
\* record N that held old
ChangedHeldPhone ==
    /\ Returned("change")
    /\ Len(data) >= 3
    /\ isnumeric(data[3])
    /\ data[2] # data[3]
    /\ HasKey(prev, data[1])
    /\ Count(get(prev, data[1]).phones, data[2]) >= 1

\* C5 (as claimed): after such a change, phone(N) no longer lists old and
\* does list new, also for a record that held old more than once.
C5_ChangeDropsOld ==
    ChangedHeldPhone =>
        /\ Count(Listed(data[1]), data[2]) = 0
        /\ Count(Listed(data[1]), data[3]) >= 1

\* C5 (amended): after such a change, phone(N) lists new last and lists old
\* once less than the record held it: only the first old is replaced, so old
\* is gone exactly when the record held it once.
C5_ChangeReplacesFirstOld ==
    ChangedHeldPhone =>
        LET before == get(prev, data[1]).phones
            after  == Listed(data[1])
        IN  /\ Len(after) = Len(before)
            /\ after[Len(after)] = data[3]
            /\ Count(after, data[2]) = Count(before, data[2]) - 1
            /\ Count(after, data[3]) = Count(before, data[3]) + 1

\* a change on a record that held old twice
C5_Witness ==
    /\ ChangedHeldPhone
    /\ Count(get(prev, data[1]).phones, data[2]) = 2

\* C7: every key of the address book is the name of the record under it, so
\* no two records have the same name.
C7_KeyIsName ==
    /\ \A i \in 1..Len(book) : book[i].key = book[i].rec.name
    /\ \A i, j \in 1..Len(book) :
          book[i].rec.name = book[j].rec.name => i = j

\* add has stored a record under a renamed key next to another record
C7_Witness ==
    /\ Returned("add")
    /\ answer = "2"
    /\ Len(book) = Len(prev) + 1
    /\ Len(book) >= 2

\* the exit tokens of the interface
ExitTokens == {<<".">>, <<"c","l","o","s","e">>, <<"b","y","e">>, <<"e","x","i","t">>}

\* C8 (as claimed): the loop has terminated exactly when the last line,
\* trimmed and lower-cased, is an exit token; "bye now" gives the
\* unknown-command message; nothing is dispatched after termination.
C8_ExitIffTrimmedLineIsToken ==
    /\ (mode = "terminated") <=> (lower(strip(user_input)) \in ExitTokens)
    /\ user_input = <<"b","y","e"," ","n","o","w">> => out = UnknownCommand
    /\ mode = "terminated" => command = "none"

\* C8 (amended): the loop has terminated exactly when the last line, lower-
\* cased but not trimmed, is an exit token; a line with whitespace around the
\* token ("bye ") or more after it ("bye now") gives the unknown-command
\* message; nothing is dispatched after termination.
C8_ExitIffWholeLineIsToken ==
    /\ (mode = "terminated") <=> (lower(user_input) \in ExitTokens)
    /\ user_input \in {<<"b","y","e"," ","n","o","w">>, <<"b","y","e"," ">>} =>
          mode = "running" /\ out = UnknownCommand
    /\ mode = "terminated" => command = "none" /\ book = prev

\* "Bye" has ended the loop
C8_Witness == mode = "terminated" /\ user_input = <<"B","y","e">>

\* C9: delete(N) with N not empty returns the confirmation, phone(N) then
\* gives the not-found message and every record under another name is as it
\* was; delete with an empty name gives the missing-argument message and
\* leaves the address book as it was.
C9_DeleteRemovesOnlyThatRecord ==
    Returned("delete_contact") =>
        LET N == data[1]
        IN  /\ N # << >> =>
                  /\ out = N \o <<" ","w","a","s"," ","d","e","l","e","t","e","d"," ","f","r","o",
                                  "m"," ","y","o","u","r"," ","c","o","n","t","a","c","t"," ","l",
                                  "i","s","t">>
                  /\ PhoneShows(N) = NotFound(N)
                  /\ book = SelectSeq(prev, LAMBDA e : e.key # N)
            /\ N = << >> => out = MissingArgument /\ book = prev

\* delete has removed a record from a book that held another one too
C9_Witness ==
    /\ Returned("delete_contact")
    /\ HasKey(prev, data[1])
    /\ Len(prev) >= 2

\* C10: when add returns the invalid-phone-format message, the address book
\* is as it was before the call.
C10_InvalidPhoneLeavesBook ==
    (Returned("add") /\ out = InvalidPhone) => book = prev

====
